---- MODULE Spec2Model ----
(***************************************************************************)
(* The two ABR brush decoders of abrupng: the legacy decoder (abr12.rs,    *)
(* format versions 1 and 2) and the generation-6 decoder (abr6.rs).  A     *)
(* decoder owns a seekable byte source; open positions it and next_brush   *)
(* is called until it returns None.  The byte source is a real sequence of *)
(* bytes, big-endian fields are encoded and decoded byte by byte, and the  *)
(* reader behaves as a std::io::Cursor (a seek past the end succeeds, the  *)
(* read after it fails with UnexpectedEof).                                *)
(***************************************************************************)
EXTENDS Integers, Sequences, FiniteSets, TLC

VARIABLES
    src,      \* the bytes of the source (never written)
    build,    \* "debug": arithmetic overflow panics; "release": it wraps
    kind,     \* "abr12" or "abr6": which decoder is run over src
    args,     \* the arguments of open: [rdr, version, count] or [rdr, subversion]
    pc,       \* "start", "open" (a decoder exists), "failed" (open returned Err),
              \* "aborted" (a call panicked or the allocator gave up)
    dec,      \* the Decoder / Abr6Decoder struct, rdr being the reader's position
    calls,    \* number of next_brush calls made so far
    failedAt, \* index of the call whose length step failed, 0 if none did
    last,     \* what the last operation did and returned
    blocks    \* the resource blocks src was laid out from, in stream order

vars == <<src, build, kind, args, pc, dec, calls, failedAt, last, blocks>>

----------------------------------------------------------------------------
(* Bounds of the model. *)

\* Largest brush count a legacy decoder is opened with.
MaxCount == 3
\* Largest number of brush records laid out in a source.
MaxRecs == 2
\* A size above SizeCap is treated as one value, Huge: every source of the
\* model is far shorter, so a read of that many bytes meets the end of file.
SizeCap == 4096

MaxCalls == MaxCount + 1
Huge == SizeCap + 1

----------------------------------------------------------------------------
(* Big-endian fields, as byteorder's BigEndian writes and reads them. *)

U16(v) == <<v \div 256, v % 256>>
U32(v) == <<v \div 16777216, (v \div 65536) % 256, (v \div 256) % 256, v % 256>>

Zeros(n) == [i \in 1..n |-> 0]

\* The n bytes of s at offset p (0-based); the caller checks they exist.
Bytes(s, p, n) == [i \in 1..n |-> s[p + i]]

BeU16(s, p) == s[p + 1] * 256 + s[p + 2]
BeU32(s, p) == ((s[p + 1] * 256 + s[p + 2]) * 256 + s[p + 3]) * 256 + s[p + 4]

----------------------------------------------------------------------------
(* The reader: Read + Seek over the bytes s, at position p. *)

\* read_exact of n bytes: all of them or an error; a short read consumes
\* what is left.
ReadExact(s, p, n) ==
    IF p + n <= Len(s)
    THEN [ok |-> TRUE, pos |-> p + n]
    ELSE [ok |-> FALSE, pos |-> IF p > Len(s) THEN p ELSE Len(s)]

\* seek(SeekFrom::Start(p)) and seek(SeekFrom::Current(n)) with n >= 0: the
\* position may lie past the end.
SeekStart(p) == [ok |-> TRUE, pos |-> p]
SeekCurrent(p, n) == [ok |-> TRUE, pos |-> p + n]

\* util::tell / helper::tell: the current offset in the byte source.
Tell(p) == [ok |-> TRUE, val |-> p]

----------------------------------------------------------------------------
(* Results of a call. *)

NoBrush == [width |-> 0, height |-> 0, depth |-> 0, data |-> <<>>]
NoError == [kind |-> "none", val |-> 0]

IoError == [kind |-> "IoError", val |-> 0]
UnsupportedBrushType(ty) == [kind |-> "UnsupportedBrushType", val |-> ty]
UnsupportedBitDepth(depth) == [kind |-> "UnsupportedBitDepth", val |-> depth]
RleSizeMismatch == [kind |-> "RleSizeMismatch", val |-> 0]

\* What a body parser hands back: the decoder it was lent (&mut), and Ok(brush),
\* Err(err) or no return at all (a panic or an allocation failure: "Abort").
BodyOk(d, p, brush) == [dec |-> [d EXCEPT !.rdr = p], res |-> "Ok", err |-> NoError, brush |-> brush]
BodyErr(d, p, err) == [dec |-> [d EXCEPT !.rdr = p], res |-> "Err", err |-> err, brush |-> NoBrush]
BodyAbort(d, p) == [dec |-> [d EXCEPT !.rdr = p], res |-> "Abort", err |-> NoError, brush |-> NoBrush]

----------------------------------------------------------------------------
(* The shared RLE codec (PackBits), util::read_rle_data / helper::read_rle_data. *)

Repeat(b, n) == [i \in 1..n |-> b]

\* One scanline: n compressed bytes at p are unpacked onto out.  A control byte
\* c < 128 copies the c+1 bytes after it, c = 128 does nothing, c > 128 (the
\* signed value c-256) repeats the next byte 1-(c-256) times.
RECURSIVE UnpackLine(_, _, _, _)
UnpackLine(s, p, n, out) ==
    IF n <= 0 THEN [ok |-> TRUE, pos |-> p, out |-> out]
    ELSE IF p + 1 > Len(s) THEN [ok |-> FALSE, pos |-> p, out |-> out]
    ELSE LET c == s[p + 1] IN
         IF c < 128
         THEN IF p + 1 + (c + 1) > Len(s)
              THEN [ok |-> FALSE, pos |-> Len(s), out |-> out]
              ELSE UnpackLine(s, p + 2 + c, n - 2 - c, out \o Bytes(s, p + 1, c + 1))
         ELSE IF c = 128
         THEN UnpackLine(s, p + 1, n - 1, out)
         ELSE IF p + 2 > Len(s)
              THEN [ok |-> FALSE, pos |-> Len(s), out |-> out]
              ELSE UnpackLine(s, p + 2, n - 2, out \o Repeat(s[p + 2], 257 - c))

\* The scanlines i..height, whose 16-bit compressed lengths are stored at tab.
RECURSIVE UnpackLines(_, _, _, _, _, _)
UnpackLines(s, tab, i, height, p, out) ==
    IF i > height THEN [ok |-> TRUE, pos |-> p, out |-> out]
    ELSE LET r == UnpackLine(s, p, BeU16(s, tab + 2 * (i - 1)), out) IN
         IF ~r.ok THEN r ELSE UnpackLines(s, tab, i + 1, height, r.pos, r.out)

\* read_rle_data(rdr, height, size): the table of height scanline lengths, then
\* each scanline; anything but exactly size bytes is an error.
read_rle_data(s, p, height, size) ==
    LET tab == IF height > SizeCap THEN [ok |-> FALSE, pos |-> IF p > Len(s) THEN p ELSE Len(s)]
               ELSE ReadExact(s, p, 2 * height)
    IN IF ~tab.ok THEN [ok |-> FALSE, pos |-> tab.pos, err |-> IoError, data |-> <<>>]
       ELSE LET r == UnpackLines(s, p, 1, height, tab.pos, <<>>) IN
            IF ~r.ok THEN [ok |-> FALSE, pos |-> r.pos, err |-> IoError, data |-> <<>>]
            ELSE IF size = Huge \/ Len(r.out) # size
            THEN [ok |-> FALSE, pos |-> r.pos, err |-> RleSizeMismatch, data |-> <<>>]
            ELSE [ok |-> TRUE, pos |-> r.pos, err |-> NoError, data |-> r.out]

\* (width as usize) * (height as usize) * (depth as usize >> 3) with depth = 8,
\* exact up to SizeCap and Huge above it.
SizeOf(width, height) ==
    IF width = 0 \/ height = 0 THEN 0
    ELSE IF width > SizeCap \div height THEN Huge
    ELSE width * height

\* ReadRaw handing back the bytes that were there when the source ends early.
ReadRaw_short(s, p, size, env) ==
    IF size = Huge
    THEN [ok |-> FALSE, abort |-> env = "alloc", pos |-> IF p > Len(s) THEN p ELSE Len(s),
          err |-> IoError, data |-> <<>>]
    ELSE LET r == ReadExact(s, p, size) IN
         [ok |-> TRUE, abort |-> FALSE, pos |-> r.pos, err |-> NoError,
          data |-> IF r.ok THEN Bytes(s, p, size)
                   ELSE IF p >= Len(s) THEN <<>> ELSE Bytes(s, p, Len(s) - p)]

\* let mut v = vec![0; size]; read_exact(&mut v): the size bytes at p.  A Huge
\* vector may be refused by the allocator (env = "alloc"), which ends the
\* process; otherwise the read of Huge bytes meets the end of the source.
ReadRaw(s, p, size, env) ==
    IF size = Huge
    THEN [ok |-> FALSE, abort |-> env = "alloc", pos |-> IF p > Len(s) THEN p ELSE Len(s),
          err |-> IoError, data |-> <<>>]
    ELSE LET r == ReadExact(s, p, size) IN
         [ok |-> r.ok, abort |-> FALSE, pos |-> r.pos,
          err |-> IF r.ok THEN NoError ELSE IoError,
          data |-> IF r.ok THEN Bytes(s, p, size) ELSE <<>>]

----------------------------------------------------------------------------
(* The legacy decoder, abr12.rs. *)

\* right - left and bottom - top on u16: with overflow checks (debug) a negative
\* difference panics, without them (release) it wraps modulo 2^16.
Sub16(bld, a, b) ==
    [panic |-> a < b /\ bld = "debug", val |-> (a - b + 65536) % 65536]

\* The name of a version 2 brush: a 32-bit length, then 2*length bytes skipped.
SkipName12(version, s, p) ==
    IF version = 2
    THEN LET r == ReadExact(s, p, 4) IN
         IF ~r.ok THEN r ELSE SeekCurrent(r.pos, 2 * BeU32(s, p))
    ELSE [ok |-> TRUE, pos |-> p]

\* The pixel data of a legacy brush, after the compression flag at p - 1.
BrushData12(d, s, p, bld, top, left, bottom, right, depth, compressed, env) ==
    LET w == Sub16(bld, right, left)
        h == Sub16(bld, bottom, top)
        size == SizeOf(w.val, h.val)
        data == IF compressed THEN read_rle_data(s, p, h.val, size) @@ [abort |-> FALSE]
                ELSE ReadRaw(s, p, size, env)
    IN IF w.panic \/ h.panic THEN BodyAbort(d, p)
       ELSE IF data.abort THEN BodyAbort(d, p)
       ELSE IF ~data.ok THEN BodyErr(d, data.pos, data.err)
       ELSE BodyOk(d, data.pos,
                   [width |-> w.val, height |-> h.val, depth |-> depth, data |-> data.data])

\* do_brush_body: the reader stands after the length field.  env = "body" is a
\* device error on the first read.
do_brush_body(d, s, bld, env) ==
    LET p0 == d.rdr
        rTy == ReadExact(s, p0, 2)
    IN IF env = "body" THEN BodyErr(d, p0, IoError)
       ELSE IF ~rTy.ok THEN BodyErr(d, rTy.pos, IoError)
       ELSE IF BeU16(s, p0) # 2 THEN BodyErr(d, rTy.pos, UnsupportedBrushType(BeU16(s, p0)))
       ELSE
       \* _misc (u32), _spacing (u16)
       LET rMeta == ReadExact(s, rTy.pos, 6) IN
       IF ~rMeta.ok THEN BodyErr(d, rMeta.pos, IoError)
       ELSE
       LET rName == SkipName12(d.version, s, rMeta.pos) IN
       IF ~rName.ok THEN BodyErr(d, rName.pos, IoError)
       ELSE
       \* _antialiasing (u8), top, left, bottom, right (u16), the four long
       \* bounds (u32, discarded), depth (u16): 27 bytes read in a row
       LET q == rName.pos
           rHead == ReadExact(s, q, 27)
       IN IF ~rHead.ok THEN BodyErr(d, rHead.pos, IoError)
          ELSE IF BeU16(s, q + 25) # 8
          THEN BodyErr(d, rHead.pos, UnsupportedBitDepth(BeU16(s, q + 25)))
          ELSE
          LET rComp == ReadExact(s, rHead.pos, 1) IN
          IF ~rComp.ok THEN BodyErr(d, rComp.pos, IoError)
          ELSE BrushData12(d, s, rComp.pos, bld,
                           BeU16(s, q + 1), BeU16(s, q + 3), BeU16(s, q + 5), BeU16(s, q + 7),
                           BeU16(s, q + 25), s[q + 28] # 0, env)

\* do_brush_head reading the length where the reader happens to stand.
do_brush_head_no_seek(d, s, env) ==
    LET brush_pos == d.next_brush_pos
        sk == [ok |-> TRUE, pos |-> d.rdr]
        rLen == ReadExact(s, sk.pos, 2)
    IN IF env = "seek"
       THEN [ok |-> FALSE, at |-> sk.pos, rdr |-> d.rdr, len |-> 0, next_brush_pos |-> 0]
       ELSE IF env = "len" \/ ~rLen.ok
       THEN [ok |-> FALSE, at |-> sk.pos, rdr |-> IF env = "len" THEN sk.pos ELSE rLen.pos,
             len |-> 0, next_brush_pos |-> 0]
       ELSE [ok |-> TRUE, at |-> sk.pos, rdr |-> rLen.pos, len |-> BeU16(s, sk.pos),
             next_brush_pos |-> (brush_pos + 2) + BeU16(s, sk.pos)]

\* do_brush_head: seek to the record, read its 16-bit length, return where the
\* record after it starts.  env = "seek" / "len" is a device error there.
do_brush_head(d, s, env) ==
    LET brush_pos == d.next_brush_pos
        sk == SeekStart(brush_pos)
        rLen == ReadExact(s, sk.pos, 2)
    IN IF env = "seek"
       THEN [ok |-> FALSE, at |-> sk.pos, rdr |-> d.rdr, len |-> 0, next_brush_pos |-> 0]
       ELSE IF env = "len" \/ ~rLen.ok
       THEN [ok |-> FALSE, at |-> sk.pos, rdr |-> IF env = "len" THEN sk.pos ELSE rLen.pos,
             len |-> 0, next_brush_pos |-> 0]
       ELSE [ok |-> TRUE, at |-> sk.pos, rdr |-> rLen.pos, len |-> BeU16(s, sk.pos),
             next_brush_pos |-> (brush_pos + 2) + BeU16(s, sk.pos)]

NoDecoder12 == [rdr |-> 0, version |-> 0, count |-> 0, next_brush_pos |-> 0]

\* next_brush12 without the reset of count when the length step fails.
next_brush12_keeps_count(d, s, bld, env) ==
    IF d.count = 0
    THEN [dec |-> d, res |-> "None", err |-> NoError, brush |-> NoBrush,
          headOk |-> FALSE, at |-> d.next_brush_pos, len |-> 0, mid |-> d]
    ELSE LET d1 == [d EXCEPT !.count = d.count - 1]
             head == do_brush_head(d1, s, env)
         IN IF head.ok
            THEN LET d2 == [d1 EXCEPT !.rdr = head.rdr, !.next_brush_pos = head.next_brush_pos]
                     body == do_brush_body(d2, s, bld, env)
                 IN body @@ [headOk |-> TRUE, at |-> head.at, len |-> head.len, mid |-> d2]
            ELSE LET d2 == [d1 EXCEPT !.rdr = head.rdr] IN
                 [dec |-> d2, res |-> "Err", err |-> IoError, brush |-> NoBrush,
                  headOk |-> FALSE, at |-> head.at, len |-> 0, mid |-> d2]

\* next_brush12 committing the next offset only once the body has parsed.
next_brush12_commit_late(d, s, bld, env) ==
    IF d.count = 0
    THEN [dec |-> d, res |-> "None", err |-> NoError, brush |-> NoBrush,
          headOk |-> FALSE, at |-> d.next_brush_pos, len |-> 0, mid |-> d]
    ELSE LET d1 == [d EXCEPT !.count = d.count - 1]
             head == do_brush_head(d1, s, env)
         IN IF head.ok
            THEN LET d2 == [d1 EXCEPT !.rdr = head.rdr]
                     body == do_brush_body(d2, s, bld, env)
                     done == IF body.res = "Ok"
                             THEN [body EXCEPT !.dec.next_brush_pos = head.next_brush_pos]
                             ELSE body
                 IN done @@ [headOk |-> TRUE, at |-> head.at, len |-> head.len, mid |-> d2]
            ELSE LET d2 == [d1 EXCEPT !.rdr = head.rdr, !.count = 0] IN
                 [dec |-> d2, res |-> "Err", err |-> IoError, brush |-> NoBrush,
                  headOk |-> FALSE, at |-> head.at, len |-> 0, mid |-> d2]

\* next_brush of the legacy decoder: the decoder after the call and the value
\* returned.  mid is the decoder as do_brush_body received it.
next_brush12(d, s, bld, env) ==
    IF d.count = 0
    THEN [dec |-> d, res |-> "None", err |-> NoError, brush |-> NoBrush,
          headOk |-> FALSE, at |-> d.next_brush_pos, len |-> 0, mid |-> d]
    ELSE LET d1 == [d EXCEPT !.count = d.count - 1]
             head == do_brush_head(d1, s, env)
         IN IF head.ok
            THEN LET d2 == [d1 EXCEPT !.rdr = head.rdr, !.next_brush_pos = head.next_brush_pos]
                     body == do_brush_body(d2, s, bld, env)
                 IN body @@ [headOk |-> TRUE, at |-> head.at, len |-> head.len, mid |-> d2]
            ELSE LET d2 == [d1 EXCEPT !.rdr = head.rdr, !.count = 0] IN
                 [dec |-> d2, res |-> "Err", err |-> IoError, brush |-> NoBrush,
                  headOk |-> FALSE, at |-> head.at, len |-> 0, mid |-> d2]

\* open of the legacy decoder: the reader stands at the first brush record.
\* env = "tell" is a device error in util::tell.
open12(rdr, version, count, env) ==
    LET cur_pos == Tell(rdr) IN
    IF env = "tell" THEN [res |-> "IoError", dec |-> NoDecoder12]
    ELSE [res |-> "Ok",
          dec |-> [rdr |-> rdr, version |-> version, count |-> count,
                   next_brush_pos |-> cur_pos.val]]

----------------------------------------------------------------------------
(* The generation-6 decoder, abr6.rs. *)

\* A u32 that may exceed what TLC's 32-bit integers hold is kept as two
\* 16-bit halves, its value being hi * 65536 + lo.
Halves(v) == [hi |-> v \div 65536, lo |-> v % 65536]

\* right - left and bottom - top on u32 (operands below 2^31): with overflow
\* checks a negative difference panics, without them it wraps modulo 2^32,
\* a - b + 2^32 = (2^32 - 1) - (b - a - 1).
Sub32(bld, a, b) ==
    IF a >= b
    THEN [panic |-> FALSE, val |-> Halves(a - b)]
    ELSE [panic |-> bld = "debug",
          val |-> [hi |-> 65535 - ((b - a - 1) \div 65536),
                   lo |-> 65535 - ((b - a - 1) % 65536)]]

\* (width as usize) * (height as usize) * (depth as usize >> 3) on 64-bit usize.
SizeOf32(width, height) ==
    IF (width.hi = 0 /\ width.lo = 0) \/ (height.hi = 0 /\ height.lo = 0) THEN 0
    ELSE IF width.hi > 0 \/ height.hi > 0 THEN Huge
    ELSE SizeOf(width.lo, height.lo)

\* The pixel data of a sample brush, after the compression flag at p - 1.
BrushData6(d, s, p, bld, top, left, bottom, right, depth, compressed, env) ==
    LET w == Sub32(bld, right, left)
        h == Sub32(bld, bottom, top)
        size == SizeOf32(w.val, h.val)
        lines == IF h.val.hi > 0 THEN Huge ELSE h.val.lo
        data == IF compressed THEN read_rle_data(s, p, lines, size) @@ [abort |-> FALSE]
                ELSE ReadRaw(s, p, size, env)
    IN IF w.panic \/ h.panic THEN BodyAbort(d, p)
       ELSE IF data.abort THEN BodyAbort(d, p)
       ELSE IF ~data.ok THEN BodyErr(d, data.pos, data.err)
       ELSE BodyOk(d, data.pos,
                   [width |-> w.val, height |-> h.val, depth |-> depth, data |-> data.data])

\* process_brush_body letting a depth of 16 through as well.
process_brush_body_allows16(d, s, bld, env) ==
    LET sk == SeekCurrent(d.rdr, IF d.subversion = 1 THEN 47 ELSE 301)
        q == sk.pos
        rHead == ReadExact(s, q, 18)
    IN IF env = "body" THEN BodyErr(d, d.rdr, IoError)
       ELSE IF ~rHead.ok THEN BodyErr(d, rHead.pos, IoError)
       ELSE IF BeU16(s, q + 16) # 8 /\ BeU16(s, q + 16) # 16
       THEN BodyErr(d, rHead.pos, UnsupportedBitDepth(BeU16(s, q + 16)))
       ELSE
       LET rComp == ReadExact(s, rHead.pos, 1) IN
       IF ~rComp.ok THEN BodyErr(d, rComp.pos, IoError)
       ELSE BrushData6(d, s, rComp.pos, bld,
                       BeU32(s, q), BeU32(s, q + 4), BeU32(s, q + 8), BeU32(s, q + 12),
                       BeU16(s, q + 16), s[q + 19] # 0, env)

\* process_brush_body: the reader stands after the length field.
process_brush_body(d, s, bld, env) ==
    LET sk == SeekCurrent(d.rdr, IF d.subversion = 1 THEN 47 ELSE 301)
        q == sk.pos
        \* top, left, bottom, right (u32), depth (u16): 18 bytes read in a row
        rHead == ReadExact(s, q, 18)
    IN IF env = "body" THEN BodyErr(d, d.rdr, IoError)
       ELSE IF ~rHead.ok THEN BodyErr(d, rHead.pos, IoError)
       ELSE IF BeU16(s, q + 16) # 8
       THEN BodyErr(d, rHead.pos, UnsupportedBitDepth(BeU16(s, q + 16)))
       ELSE
       LET rComp == ReadExact(s, rHead.pos, 1) IN
       IF ~rComp.ok THEN BodyErr(d, rComp.pos, IoError)
       ELSE BrushData6(d, s, rComp.pos, bld,
                       BeU32(s, q), BeU32(s, q + 4), BeU32(s, q + 8), BeU32(s, q + 12),
                       BeU16(s, q + 16), s[q + 19] # 0, env)

\* Rounding that moves an aligned position on to the next boundary.
AlignUp4_over(end_pos) == ((end_pos + 4) \div 4) * 4

\* (end_pos + 3) & !3
AlignUp4(end_pos) == ((end_pos + 3) \div 4) * 4

\* process_brush_length taking the length from the start of the source rather
\* than from the record.
process_brush_length_relative(d, s, env) ==
    LET brush_pos == d.next_brush_pos
        sk == SeekStart(brush_pos)
        rLen == ReadExact(s, sk.pos, 4)
    IN IF env = "seek"
       THEN [ok |-> FALSE, at |-> sk.pos, rdr |-> d.rdr, len |-> 0, next_brush_pos |-> 0]
       ELSE IF env = "len" \/ ~rLen.ok
       THEN [ok |-> FALSE, at |-> sk.pos, rdr |-> IF env = "len" THEN sk.pos ELSE rLen.pos,
             len |-> 0, next_brush_pos |-> 0]
       ELSE [ok |-> TRUE, at |-> sk.pos, rdr |-> rLen.pos, len |-> BeU32(s, sk.pos),
             next_brush_pos |-> AlignUp4(4 + BeU32(s, sk.pos))]

\* process_brush_length leaving the length field's own 4 bytes out of the sum.
process_brush_length_no_field(d, s, env) ==
    LET brush_pos == d.next_brush_pos
        sk == SeekStart(brush_pos)
        rLen == ReadExact(s, sk.pos, 4)
    IN IF env = "seek"
       THEN [ok |-> FALSE, at |-> sk.pos, rdr |-> d.rdr, len |-> 0, next_brush_pos |-> 0]
       ELSE IF env = "len" \/ ~rLen.ok
       THEN [ok |-> FALSE, at |-> sk.pos, rdr |-> IF env = "len" THEN sk.pos ELSE rLen.pos,
             len |-> 0, next_brush_pos |-> 0]
       ELSE [ok |-> TRUE, at |-> sk.pos, rdr |-> rLen.pos, len |-> BeU32(s, sk.pos),
             next_brush_pos |-> AlignUp4(brush_pos + BeU32(s, sk.pos))]

\* process_brush_length: seek to the record, read its 32-bit length, return the
\* position where the next brush starts.
process_brush_length(d, s, env) ==
    LET brush_pos == d.next_brush_pos
        sk == SeekStart(brush_pos)
        rLen == ReadExact(s, sk.pos, 4)
    IN IF env = "seek"
       THEN [ok |-> FALSE, at |-> sk.pos, rdr |-> d.rdr, len |-> 0, next_brush_pos |-> 0]
       ELSE IF env = "len" \/ ~rLen.ok
       THEN [ok |-> FALSE, at |-> sk.pos, rdr |-> IF env = "len" THEN sk.pos ELSE rLen.pos,
             len |-> 0, next_brush_pos |-> 0]
       ELSE [ok |-> TRUE, at |-> sk.pos, rdr |-> rLen.pos, len |-> BeU32(s, sk.pos),
             next_brush_pos |-> AlignUp4((brush_pos + 4) + BeU32(s, sk.pos))]

\* next_brush6 seeking to the record before it tests for exhaustion.
next_brush6_seeks_first(d, s, bld, env) ==
    LET d0 == [d EXCEPT !.rdr = SeekStart(d.next_brush_pos).pos] IN
    IF d.next_brush_pos >= d.sample_section_end
    THEN [dec |-> d0, res |-> "None", err |-> NoError, brush |-> NoBrush,
          headOk |-> FALSE, at |-> d.next_brush_pos, len |-> 0, mid |-> d0]
    ELSE LET head == process_brush_length(d, s, env) IN
         IF head.ok
         THEN LET d2 == [d EXCEPT !.rdr = head.rdr, !.next_brush_pos = head.next_brush_pos]
                  body == process_brush_body(d2, s, bld, env)
              IN body @@ [headOk |-> TRUE, at |-> head.at, len |-> head.len, mid |-> d2]
         ELSE LET d2 == [d EXCEPT !.rdr = head.rdr, !.next_brush_pos = d.sample_section_end] IN
              [dec |-> d2, res |-> "Err", err |-> IoError, brush |-> NoBrush,
               headOk |-> FALSE, at |-> head.at, len |-> 0, mid |-> d2]

\* next_brush6 leaving next_brush_pos alone when the length step fails.
next_brush6_keeps_pos(d, s, bld, env) ==
    IF d.next_brush_pos >= d.sample_section_end
    THEN [dec |-> d, res |-> "None", err |-> NoError, brush |-> NoBrush,
          headOk |-> FALSE, at |-> d.next_brush_pos, len |-> 0, mid |-> d]
    ELSE LET head == process_brush_length(d, s, env) IN
         IF head.ok
         THEN LET d2 == [d EXCEPT !.rdr = head.rdr, !.next_brush_pos = head.next_brush_pos]
                  body == process_brush_body(d2, s, bld, env)
              IN body @@ [headOk |-> TRUE, at |-> head.at, len |-> head.len, mid |-> d2]
         ELSE LET d2 == [d EXCEPT !.rdr = head.rdr] IN
              [dec |-> d2, res |-> "Err", err |-> IoError, brush |-> NoBrush,
               headOk |-> FALSE, at |-> head.at, len |-> 0, mid |-> d2]

\* next_brush of the generation-6 decoder.
next_brush6(d, s, bld, env) ==
    IF d.next_brush_pos >= d.sample_section_end
    THEN [dec |-> d, res |-> "None", err |-> NoError, brush |-> NoBrush,
          headOk |-> FALSE, at |-> d.next_brush_pos, len |-> 0, mid |-> d]
    ELSE LET head == process_brush_length(d, s, env) IN
         IF head.ok
         THEN LET d2 == [d EXCEPT !.rdr = head.rdr, !.next_brush_pos = head.next_brush_pos]
                  body == process_brush_body(d2, s, bld, env)
              IN body @@ [headOk |-> TRUE, at |-> head.at, len |-> head.len, mid |-> d2]
         ELSE LET d2 == [d EXCEPT !.rdr = head.rdr, !.next_brush_pos = d.sample_section_end] IN
              [dec |-> d2, res |-> "Err", err |-> IoError, brush |-> NoBrush,
               headOk |-> FALSE, at |-> head.at, len |-> 0, mid |-> d2]

NoDecoder6 == [rdr |-> 0, subversion |-> 0, sample_section_end |-> 0, next_brush_pos |-> 0]

\* The signature and the tag open compares with, as ASCII.
Sig8bim == <<56, 98, 105, 109>>
TagSamp == <<115, 97, 109, 112>>

\* FindSample comparing the signature with the upper-case "8BIM".
RECURSIVE FindSample_upper(_, _, _)
FindSample_upper(s, p, iters) ==
    LET rSig == ReadExact(s, p, 4)
        rTag == ReadExact(s, rSig.pos, 4)
        rLen == ReadExact(s, rTag.pos, 4)
    IN IF ~rSig.ok THEN [res |-> "IoError", pos |-> rSig.pos, iters |-> iters, visited |-> <<p>>]
       ELSE IF Bytes(s, p, 4) = <<56, 66, 73, 77>>
       THEN [res |-> "Found8bim", pos |-> rSig.pos, iters |-> iters, visited |-> <<p>>]
       ELSE IF ~rTag.ok THEN [res |-> "IoError", pos |-> rTag.pos, iters |-> iters, visited |-> <<p>>]
       ELSE IF Bytes(s, p + 4, 4) = TagSamp THEN [res |-> "samp", pos |-> rTag.pos, iters |-> iters, visited |-> <<p>>]
       ELSE IF ~rLen.ok THEN [res |-> "IoError", pos |-> rLen.pos, iters |-> iters, visited |-> <<p>>]
       ELSE LET rest == FindSample_upper(s, SeekCurrent(rLen.pos, BeU32(s, p + 8)).pos, iters + 1)
            IN [rest EXCEPT !.visited = <<p>> \o @]

\* FindSample without the forward skip of the block's data.
RECURSIVE FindSample_no_skip(_, _, _)
FindSample_no_skip(s, p, iters) ==
    LET rSig == ReadExact(s, p, 4)
        rTag == ReadExact(s, rSig.pos, 4)
        rLen == ReadExact(s, rTag.pos, 4)
    IN IF ~rSig.ok THEN [res |-> "IoError", pos |-> rSig.pos, iters |-> iters, visited |-> <<p>>]
       ELSE IF Bytes(s, p, 4) = Sig8bim THEN [res |-> "Found8bim", pos |-> rSig.pos, iters |-> iters, visited |-> <<p>>]
       ELSE IF ~rTag.ok THEN [res |-> "IoError", pos |-> rTag.pos, iters |-> iters, visited |-> <<p>>]
       ELSE IF Bytes(s, p + 4, 4) = TagSamp THEN [res |-> "samp", pos |-> rTag.pos, iters |-> iters, visited |-> <<p>>]
       ELSE IF ~rLen.ok THEN [res |-> "IoError", pos |-> rLen.pos, iters |-> iters, visited |-> <<p>>]
       ELSE LET rest == FindSample_no_skip(s, rLen.pos, iters + 1)
            IN [rest EXCEPT !.visited = <<p>> \o @]

\* The loop of open that finds the sample section, the reader at p: "samp" (the
\* tag was read, the reader stands after it), "Found8bim" or "IoError".  iters
\* counts the blocks skipped, visited lists where each iteration began.
RECURSIVE FindSample(_, _, _)
FindSample(s, p, iters) ==
    LET rSig == ReadExact(s, p, 4)
        rTag == ReadExact(s, rSig.pos, 4)
        rLen == ReadExact(s, rTag.pos, 4)
    IN IF ~rSig.ok THEN [res |-> "IoError", pos |-> rSig.pos, iters |-> iters, visited |-> <<p>>]
       ELSE IF Bytes(s, p, 4) = Sig8bim THEN [res |-> "Found8bim", pos |-> rSig.pos, iters |-> iters, visited |-> <<p>>]
       ELSE IF ~rTag.ok THEN [res |-> "IoError", pos |-> rTag.pos, iters |-> iters, visited |-> <<p>>]
       ELSE IF Bytes(s, p + 4, 4) = TagSamp THEN [res |-> "samp", pos |-> rTag.pos, iters |-> iters, visited |-> <<p>>]
       ELSE IF ~rLen.ok THEN [res |-> "IoError", pos |-> rLen.pos, iters |-> iters, visited |-> <<p>>]
       ELSE LET rest == FindSample(s, SeekCurrent(rLen.pos, BeU32(s, p + 8)).pos, iters + 1)
            IN [rest EXCEPT !.visited = <<p>> \o @]

\* open6 taking the reader's position before it reads the section length.
open6_before_len(rdr, subversion, s, env) ==
    LET found == FindSample(s, rdr, 0)
        cur == Tell(found.pos)
        rLen == ReadExact(s, found.pos, 4)
    IN IF env = "read"
       THEN [res |-> "IoError", dec |-> NoDecoder6, len |-> 0, visited |-> <<rdr>>]
       ELSE IF found.res # "samp"
       THEN [res |-> found.res, dec |-> NoDecoder6, len |-> 0, visited |-> found.visited]
       ELSE IF ~rLen.ok
       THEN [res |-> "IoError", dec |-> NoDecoder6, len |-> 0, visited |-> found.visited]
       ELSE [res |-> "Ok", len |-> BeU32(s, found.pos), visited |-> found.visited,
             dec |-> [rdr |-> rLen.pos, subversion |-> subversion,
                      sample_section_end |-> cur.val + BeU32(s, found.pos),
                      next_brush_pos |-> cur.val]]

\* open of the generation-6 decoder: Ok(decoder) or Err(Found8bim / IoError).
\* env = "read" is a device error on the first read.
open6(rdr, subversion, s, env) ==
    LET found == FindSample(s, rdr, 0)
        rLen == ReadExact(s, found.pos, 4)
        cur == Tell(rLen.pos)
    IN IF env = "read"
       THEN [res |-> "IoError", dec |-> NoDecoder6, len |-> 0, visited |-> <<rdr>>]
       ELSE IF found.res # "samp"
       THEN [res |-> found.res, dec |-> NoDecoder6, len |-> 0, visited |-> found.visited]
       ELSE IF ~rLen.ok
       THEN [res |-> "IoError", dec |-> NoDecoder6, len |-> 0, visited |-> found.visited]
       ELSE [res |-> "Ok", len |-> BeU32(s, found.pos), visited |-> found.visited,
             dec |-> [rdr |-> rLen.pos, subversion |-> subversion,
                      sample_section_end |-> cur.val + BeU32(s, found.pos),
                      next_brush_pos |-> cur.val]]

----------------------------------------------------------------------------
(* The sources the decoders are run over. *)

RECURSIVE Concat(_)
Concat(ss) == IF ss = <<>> THEN <<>> ELSE Head(ss) \o Concat(Tail(ss))

SeqsUpTo(S, n) == UNION {[1..k -> S] : k \in 0..n}

\* A legacy brush as do_brush_body reads it; far: the length field points far
\* past the end of the source.
Brush12(ty, top, left, bottom, right, depth, comp, data, far) ==
    [ty |-> ty, top |-> top, left |-> left, bottom |-> bottom, right |-> right,
     depth |-> depth, comp |-> comp, data |-> data, far |-> far]

Brushes12 ==
    { Brush12(2, 0, 0, 2, 2, 8, 0, <<1, 2, 3, 4>>, FALSE),        \* 2x2, raw
      Brush12(1, 0, 0, 2, 2, 8, 0, <<1, 2, 3, 4>>, FALSE),        \* type 1
      Brush12(2, 0, 0, 2, 2, 16, 0, <<1, 2, 3, 4>>, FALSE),       \* depth 16
      Brush12(2, 0, 2, 0, 0, 8, 0, <<>>, FALSE),                  \* right < left, no rows
      Brush12(2, 0, 2, 2, 0, 8, 0, <<1, 2, 3, 4>>, FALSE),        \* right < left, 2 rows
      Brush12(2, 0, 0, 2, 2, 8, 0, <<1, 2, 3>>, FALSE),           \* a byte short
      Brush12(2, 0, 0, 2, 2, 8, 1,
              U16(2) \o U16(3) \o <<255, 7>> \o <<1, 5, 6>>, FALSE), \* 2x2, RLE
      Brush12(2, 0, 0, 2, 2, 8, 1,
              U16(2) \o U16(2) \o <<255, 7>> \o <<0, 5>>, FALSE),    \* RLE, 3 bytes of 4
      Brush12(2, 0, 0, 2, 2, 8, 0, <<1, 2, 3, 4>>, TRUE) }        \* length 7967

\* The long bounds describe a brush one larger each way than the 16-bit ones.
Body12(version, b) ==
    U16(b.ty) \o U32(0) \o U16(25)
    \o (IF version = 2 THEN U32(1) \o <<0, 9>> ELSE <<>>)
    \o <<1>> \o U16(b.top) \o U16(b.left) \o U16(b.bottom) \o U16(b.right)
    \o U32(b.top) \o U32(b.left) \o U32(b.bottom + 1) \o U32(b.right + 1)
    \o U16(b.depth) \o <<b.comp>> \o b.data

Record12(version, b) ==
    U16(IF b.far THEN 7967 ELSE Len(Body12(version, b))) \o Body12(version, b)

\* The file: the header the caller parsed (version, count), then the records.
File12(version, count, bs) ==
    U16(version) \o U16(count) \o Concat([i \in 1..Len(bs) |-> Record12(version, bs[i])])

\* A generation-6 brush as process_brush_body reads it.
Brush6(top, left, bottom, right, depth, comp, data, far) ==
    [top |-> top, left |-> left, bottom |-> bottom, right |-> right,
     depth |-> depth, comp |-> comp, data |-> data, far |-> far]

Brushes6 ==
    { Brush6(0, 0, 2, 2, 8, 0, <<1, 2, 3, 4>>, FALSE),            \* 2x2, raw
      Brush6(0, 0, 2, 2, 16, 0, <<1, 2, 3, 4>>, FALSE),           \* depth 16
      Brush6(0, 2, 0, 0, 8, 0, <<>>, FALSE),                      \* right < left, no rows
      Brush6(0, 2, 2, 0, 8, 0, <<1, 2, 3, 4>>, FALSE),            \* right < left, 2 rows
      Brush6(0, 0, 2, 2, 8, 0, <<1, 2, 3>>, FALSE),               \* a byte short
      Brush6(0, 0, 2, 2, 8, 1,
             U16(3) \o U16(3) \o <<1, 5, 6>> \o <<1, 7, 8>>, FALSE), \* 2x2, RLE
      Brush6(0, 0, 2, 2, 8, 0, <<1, 2, 3, 4>>, TRUE) }            \* length 7967

Body6(subversion, b) ==
    Zeros(IF subversion = 1 THEN 47 ELSE 301)
    \o U32(b.top) \o U32(b.left) \o U32(b.bottom) \o U32(b.right)
    \o U16(b.depth) \o <<b.comp>> \o b.data

\* The record of b at absolute offset at, padded to the next 4-byte boundary.
Record6(subversion, b, at) ==
    LET body == Body6(subversion, b)
        end_pos == at + 4 + Len(body)
    IN U32(IF b.far THEN 7967 ELSE Len(body)) \o body \o Zeros(AlignUp4(end_pos) - end_pos)

RECURSIVE Records6(_, _, _)
Records6(subversion, bs, at) ==
    IF bs = <<>> THEN <<>>
    ELSE LET r == Record6(subversion, Head(bs), at) IN
         r \o Records6(subversion, Tail(bs), at + Len(r))

\* Resource blocks: signature, tag, 32-bit length, data.
Sig8BIM == <<56, 66, 73, 77>>
TagPatt == <<112, 97, 116, 116>>

Block(sig, tag, n) == [sig |-> sig, tag |-> tag, len |-> n]
BlockBytes(b) == b.sig \o b.tag \o U32(b.len) \o Zeros(b.len)

\* What precedes the sample block.
Pre6 ==
    { <<>>,
      <<Block(Sig8BIM, TagPatt, 2)>>,
      <<Block(Sig8BIM, TagPatt, 4)>>,
      <<Block(Sig8bim, TagPatt, 0)>>,
      <<Block(Sig8BIM, TagPatt, 4), Block(Sig8BIM, TagPatt, 2)>>,
      <<Block(Sig8BIM, TagPatt, 4), Block(Sig8bim, TagPatt, 2)>> }

\* The file: the blocks of pre, then the sample block with signature sig,
\* whose length field says the records' length plus slack.
File6(subversion, pre, sig, bs, slack) ==
    LET head == Concat([i \in 1..Len(pre) |-> BlockBytes(pre[i])])
        recs == Records6(subversion, bs, Len(head) + 12)
    IN head \o sig \o TagSamp \o U32(Len(recs) + slack) \o recs

\* The sample block of that file, as a block.
SampBlock(subversion, pre, sig, bs, slack) ==
    LET head == Concat([i \in 1..Len(pre) |-> BlockBytes(pre[i])]) IN
    Block(sig, TagSamp, Len(Records6(subversion, bs, Len(head) + 12)) + slack)

\* A file whose sample section is n records of length 0.
File6Empties(pre, sig, n) ==
    Concat([i \in 1..Len(pre) |-> BlockBytes(pre[i])]) \o BlockBytes(Block(sig, TagSamp, 4 * n))

\* The file with no sample block at all.
File6NoSample(pre) == Concat([i \in 1..Len(pre) |-> BlockBytes(pre[i])])

----------------------------------------------------------------------------
(* The state machine. *)

NoCall ==
    [op |-> "none", res |-> "none", err |-> NoError, brush |-> NoBrush,
     pre |-> NoDecoder12, mid |-> NoDecoder12, headOk |-> FALSE, at |-> 0, len |-> 0,
     env |-> "ok", visited |-> <<>>]

Init12 ==
    \E version \in {1, 2}, count \in 0..MaxCount, bs \in SeqsUpTo(Brushes12, MaxRecs) :
        /\ kind = "abr12"
        /\ src = File12(version, count, bs)
        /\ args = [rdr |-> 4, version |-> version, count |-> count]
        /\ blocks = <<>>
        /\ dec = NoDecoder12

Init6 ==
    \E subversion \in {1, 2}, pre \in Pre6 :
        /\ kind = "abr6"
        /\ args = [rdr |-> 0, subversion |-> subversion]
        /\ dec = NoDecoder6
        /\ \/ \E cut \in {0, 2, 6} :
                 /\ cut = 0 \/ (pre # <<>> /\ cut <= pre[Len(pre)].len + 3)
                 /\ src = SubSeq(File6NoSample(pre), 1, Len(File6NoSample(pre)) - cut)
                 /\ blocks = pre
           \/ \E sig \in {Sig8BIM, Sig8bim}, bs \in SeqsUpTo(Brushes6, MaxRecs), slack \in {0, 8} :
                 /\ src = File6(subversion, pre, sig, bs, slack)
                 /\ blocks = Append(pre, SampBlock(subversion, pre, sig, bs, slack))
           \/ \E sig \in {Sig8BIM, Sig8bim}, n \in 1..MaxCount :
                 /\ src = File6Empties(pre, sig, n)
                 /\ blocks = Append(pre, Block(sig, TagSamp, 4 * n))

Init ==
    /\ build \in {"debug", "release"}
    /\ pc = "start"
    /\ calls = 0
    /\ failedAt = 0
    /\ last = NoCall
    /\ (Init12 \/ Init6)

Opened(r, env) ==
    /\ pc' = IF r.res = "Ok" THEN "open" ELSE "failed"
    /\ dec' = r.dec
    /\ last' = [NoCall EXCEPT !.op = "open", !.res = r.res, !.pre = dec, !.mid = r.dec,
                             !.env = env, !.visited = r.visited]
    /\ UNCHANGED <<src, build, kind, args, calls, failedAt, blocks>>

Open12 ==
    /\ pc = "start"
    /\ kind = "abr12"
    /\ \E env \in {"ok", "tell"} :
          Opened(open12(args.rdr, args.version, args.count, env) @@ [visited |-> <<>>], env)

Open6 ==
    /\ pc = "start"
    /\ kind = "abr6"
    /\ \E env \in {"ok", "read"} :
          Opened(open6(args.rdr, args.subversion, src, env), env)

\* r is what the call did under env, r0 what it does with no device or
\* allocator error; last.env names the error only when it changed the call.
Called(r, r0, env) ==
    /\ pc' = IF r.res = "Abort" THEN "aborted" ELSE "open"
    /\ dec' = r.dec
    /\ calls' = calls + 1
    /\ failedAt' = IF failedAt = 0 /\ r.res # "None" /\ ~r.headOk THEN calls + 1 ELSE failedAt
    /\ last' = [op |-> "next_brush", res |-> r.res, err |-> r.err, brush |-> r.brush,
                pre |-> dec, mid |-> r.mid, headOk |-> r.headOk, at |-> r.at, len |-> r.len,
                env |-> IF r.res = r0.res /\ r.err = r0.err /\ r.dec = r0.dec THEN "ok" ELSE env,
                visited |-> <<>>]
    /\ UNCHANGED <<src, build, kind, args, blocks>>

Envs == {"ok", "seek", "len", "body", "alloc"}

NextBrush12 ==
    /\ pc = "open"
    /\ kind = "abr12"
    /\ calls < MaxCalls
    /\ \E env \in Envs :
          Called(next_brush12(dec, src, build, env), next_brush12(dec, src, build, "ok"), env)

NextBrush6 ==
    /\ pc = "open"
    /\ kind = "abr6"
    /\ calls < MaxCalls
    /\ \E env \in Envs :
          Called(next_brush6(dec, src, build, env), next_brush6(dec, src, build, "ok"), env)

Next == Open12 \/ Open6 \/ NextBrush12 \/ NextBrush6

Spec == Init /\ [][Next]_vars

----------------------------------------------------------------------------
(* Properties. *)

Some == {"Ok", "Err"}

\* C1: a legacy decoder opened with count N, no length step having failed:
\* each of the first N calls of next_brush returns Some (Ok or Err) and the
\* (N+1)-th returns None, whichever bodies fail to parse.
C1_FirstNCallsReturnSome ==
    (kind = "abr12" /\ last.op = "next_brush" /\ failedAt = 0) =>
        /\ calls <= args.count => last.res \in Some
        /\ calls = args.count + 1 => last.res = "None"

\* C2: legacy decoder: the call whose seek or length read fails returns
\* Some(Err(I/O error)) and leaves count = 0 whatever it was, and every later
\* call returns None.
C2_HeadFailureEndsIteration ==
    (kind = "abr12" /\ failedAt > 0) =>
        /\ dec.count = 0
        /\ calls = failedAt => last.res = "Err" /\ last.err = IoError /\ ~last.headOk
        /\ calls > failedAt => last.res = "None"

\* C2 witness: the first call of a decoder opened with count 3 failed in its
\* length step, and the call after it has returned None.
C2_Witness ==
    /\ kind = "abr12" /\ args.count = 3 /\ failedAt = 1
    /\ calls = 2 /\ last.res = "None" /\ last.pre.count = 0

\* C3: generation-6 decoder: the call whose seek or length read fails returns
\* Some(Err(IoError)) and leaves next_brush_pos = sample_section_end, and every
\* later call returns None.
C3_LengthFailureEndsIteration ==
    (kind = "abr6" /\ failedAt > 0) =>
        /\ dec.next_brush_pos = dec.sample_section_end
        /\ calls = failedAt => last.res = "Err" /\ last.err = IoError /\ ~last.headOk
        /\ calls > failedAt => last.res = "None"

\* C3 witness: the length step failed at a record lying inside the source, the
\* offset was moved to the section end, and the call after it returned None.
C3_Witness ==
    /\ kind = "abr6" /\ failedAt = 1 /\ calls = 2 /\ last.res = "None"
    /\ last.pre.next_brush_pos = last.pre.sample_section_end
    /\ args.rdr + 12 + 4 <= Len(src)
    /\ last.pre.sample_section_end <= Len(src)

\* C4, after the call: a call whose length step read L at offset p and whose
\* body then failed has left next_brush_pos at the committed next offset
\* (p+2+L legacy; the multiple of 4 in [p+4+L, p+4+L+3] generation-6), the legacy
\* count one below its value before the call, and every decoder field but the
\* reader's position as body parsing received it.
C4_BodyFailureIsLocal ==
    (last.op = "next_brush" /\ last.headOk /\ last.res = "Err") =>
        /\ last.at = last.pre.next_brush_pos
        /\ [dec EXCEPT !.rdr = 0] = [last.mid EXCEPT !.rdr = 0]
        /\ kind = "abr12" =>
              /\ last.len = src[last.at + 1] * 256 + src[last.at + 2]
              /\ dec.next_brush_pos = last.at + 2 + last.len
              /\ dec.count = last.pre.count - 1
              /\ dec.version = last.pre.version
        /\ kind = "abr6" =>
              /\ dec.next_brush_pos % 4 = 0
              /\ dec.next_brush_pos >= last.at + 4 + last.len
              /\ dec.next_brush_pos < last.at + 4 + last.len + 4
              /\ dec.sample_section_end = last.pre.sample_section_end
              /\ dec.subversion = last.pre.subversion

\* C4, the following call: it seeks to the offset the failed call committed.
C4_NextCallStartsAtCommitted ==
    [][(/\ last.op = "next_brush" /\ last.headOk /\ last.res = "Err"
        /\ calls' = calls + 1 /\ last'.res # "None")
       => last'.at = dec.next_brush_pos]_vars

\* C4: in both decoders a body-parsing failure is local to one brush.
C4_BodyFailure == []C4_BodyFailureIsLocal /\ C4_NextCallStartsAtCommitted

\* C4 witness: a legacy call read its length field, failed on the brush type
\* with brushes still to come, and the reader moved while the fields stayed.
C4_Witness ==
    /\ kind = "abr12" /\ last.op = "next_brush" /\ last.headOk /\ last.res = "Err"
    /\ last.err.kind = "UnsupportedBrushType"
    /\ dec.count > 0 /\ dec.rdr # last.mid.rdr
    /\ dec.next_brush_pos > last.pre.next_brush_pos + 2

\* C5: generation-6 next_brush returns None if and only if, at the start of the
\* call, next_brush_pos >= sample_section_end; below the section end it returns
\* Some (Ok or Err).
C5_NoneIffPastEnd ==
    (kind = "abr6" /\ last.op = "next_brush") =>
        /\ (last.res = "None") <=> (last.pre.next_brush_pos >= last.pre.sample_section_end)
        /\ last.pre.next_brush_pos < last.pre.sample_section_end => last.res \in Some

\* Where the sample section of src starts: after the blocks before the sample
\* block, and after that block's signature, tag and length field.
SampleStart == Len(File6NoSample(SubSeq(blocks, 1, Len(blocks) - 1))) + 12

\* C6: in every state of a generation-6 decoder, wherever the sample section
\* lies in the source, next_brush_pos minus the section start is a multiple
\* of 4.
C6_AlignedToSectionStart ==
    (kind = "abr6" /\ pc = "open") =>
        (dec.next_brush_pos - SampleStart) % 4 = 0

\* C7: no call of the generation-6 next_brush moves next_brush_pos to a smaller
\* value than it had before the call.
C7_OffsetsNonDecreasing ==
    (kind = "abr6" /\ last.op = "next_brush") =>
        dec.next_brush_pos >= last.pre.next_brush_pos

\* C7 witness: a later record, past the section start, has been stepped over.
C7_Witness ==
    /\ kind = "abr6" /\ last.op = "next_brush" /\ calls >= 2 /\ last.headOk
    /\ last.pre.next_brush_pos > SampleStart
    /\ dec.next_brush_pos > last.pre.next_brush_pos
    /\ dec.next_brush_pos <= dec.sample_section_end

\* C8: generation-6 open, no device error: if a block with the "8bim" signature
\* comes before any block tagged "samp" has been read, open fails with
\* Found8bim and there is no decoder; if a "samp" block comes with no "8bim"
\* signature up to and including it, open does not return Found8bim.
C8_Found8bimBeforeSamp ==
    (kind = "abr6" /\ last.op = "open" /\ last.env = "ok") =>
        /\ (\E k \in DOMAIN blocks :
               /\ blocks[k].sig = Sig8bim
               /\ \A j \in 1..(k - 1) : blocks[j].tag # TagSamp)
           => (last.res = "Found8bim" /\ pc = "failed" /\ dec = NoDecoder6)
        /\ (\E m \in DOMAIN blocks :
               /\ blocks[m].tag = TagSamp
               /\ \A j \in 1..m : blocks[j].sig # Sig8bim)
           => last.res # "Found8bim"

\* C8 witness: open skipped a first block and failed on the "8bim" signature
\* of the second, a sample block lying behind it.
C8_Witness ==
    /\ kind = "abr6" /\ last.op = "open" /\ last.res = "Found8bim"
    /\ Len(blocks) = 3 /\ blocks[1].sig = Sig8BIM /\ blocks[2].sig = Sig8bim
    /\ blocks[3].tag = TagSamp /\ blocks[3].sig = Sig8BIM

\* C9: when generation-6 open succeeds, next_brush_pos is the position right
\* after the 32-bit length field that follows the "samp" tag, and
\* sample_section_end is that position plus the length read; so
\* next_brush_pos <= sample_section_end, with equality exactly when the length
\* is 0, and then the first next_brush returns None.
C9_OpenPositions ==
    /\ (kind = "abr6" /\ last.op = "open" /\ last.res = "Ok") =>
          /\ dec.next_brush_pos = SampleStart
          /\ dec.sample_section_end = SampleStart + BeU32(src, SampleStart - 4)
          /\ BeU32(src, SampleStart - 4) = blocks[Len(blocks)].len
          /\ dec.next_brush_pos <= dec.sample_section_end
          /\ (dec.next_brush_pos = dec.sample_section_end) <=> (blocks[Len(blocks)].len = 0)
    /\ (kind = "abr6" /\ last.op = "next_brush" /\ calls = 1
        /\ blocks[Len(blocks)].len = 0) => last.res = "None"

\* C9 witness: a sample section of length 0 behind another block was opened
\* and the first next_brush has returned None.
C9_Witness ==
    /\ kind = "abr6" /\ last.op = "next_brush" /\ calls = 1 /\ last.res = "None"
    /\ blocks[Len(blocks)].len = 0 /\ SampleStart > 12
    /\ dec.next_brush_pos = SampleStart /\ dec.sample_section_end = SampleStart

\* C10: in every state of either decoder next_brush_pos is an offset into the
\* source, not past its end, or the decoder is exhausted and the offset is the
\* terminal one (generation-6: exactly sample_section_end), whatever length
\* fields the input holds.
C10_OffsetValidOrSentinel ==
    (pc = "open") =>
        \/ dec.next_brush_pos <= Len(src)
        \/ kind = "abr12" /\ dec.count = 0
        \/ kind = "abr6" /\ dec.next_brush_pos = dec.sample_section_end

Body12At == last.at + 2
HasName12 == last.pre.version # 2 \/ Body12At + 12 <= Len(src)
Name12 == IF last.pre.version = 2 THEN 4 + 2 * BeU32(src, Body12At + 8) ELSE 0
Fixed12At == Body12At + 8 + Name12
HasDepth12 == HasName12 /\ Fixed12At + 27 <= Len(src)
Top12 == BeU16(src, Fixed12At + 1)
Left12 == BeU16(src, Fixed12At + 3)
Bottom12 == BeU16(src, Fixed12At + 5)
Right12 == BeU16(src, Fixed12At + 7)
Depth12 == BeU16(src, Fixed12At + 25)
Data12At == Fixed12At + 28

\* A generation-6 body starts after the 32-bit length; 47 or 301 bytes on are
\* the 32-bit bounds, the depth, the flag and the data.
Fixed6At == last.at + 4 + (IF last.pre.subversion = 1 THEN 47 ELSE 301)
HasDepth6 == Fixed6At + 18 <= Len(src)
Top6 == BeU32(src, Fixed6At)
Left6 == BeU32(src, Fixed6At + 4)
Bottom6 == BeU32(src, Fixed6At + 8)
Right6 == BeU32(src, Fixed6At + 12)
Depth6 == BeU16(src, Fixed6At + 16)

\* A call that read its length field and met no device or allocator error.
Parsed(k) == kind = k /\ last.op = "next_brush" /\ last.headOk /\ last.env = "ok"

\* C12, the call: a legacy brush whose type tag t is not 2 gives
\* Some(Err(UnsupportedBrushType)) carrying t, the reader having read nothing
\* after the tag.
C12_TypeErrorCarriesTag ==
    (Parsed("abr12") /\ Body12At + 2 <= Len(src) /\ BeU16(src, Body12At) # 2) =>
        /\ last.res = "Err"
        /\ last.err = UnsupportedBrushType(BeU16(src, Body12At))
        /\ dec.rdr = Body12At + 2

\* C12, the call after it: with count still positive it returns Some.
C12_NextCallReturnsSome ==
    [][(/\ Parsed("abr12") /\ last.err.kind = "UnsupportedBrushType"
        /\ dec.count > 0 /\ calls' = calls + 1)
       => last'.res \in Some]_vars

\* C12: a legacy brush of a type other than 2 fails with that type and the
\* decoder remains iterable.
C12_UnsupportedType == []C12_TypeErrorCarriesTag /\ C12_NextCallReturnsSome

\* C13: a brush whose depth field d is not 8 (legacy: of type 2) gives
\* Some(Err(UnsupportedBitDepth)) carrying d, the reader standing right after
\* the depth field: neither the flag nor any pixel data was read.
C13_DepthErrorCarriesDepth ==
    /\ (Parsed("abr12") /\ HasDepth12 /\ BeU16(src, Body12At) = 2 /\ Depth12 # 8) =>
          /\ last.res = "Err"
          /\ last.err = UnsupportedBitDepth(Depth12)
          /\ dec.rdr = Fixed12At + 27
    /\ (Parsed("abr6") /\ HasDepth6 /\ Depth6 # 8) =>
          /\ last.res = "Err"
          /\ last.err = UnsupportedBitDepth(Depth6)
          /\ dec.rdr = Fixed6At + 18

\* C13 witness: a generation-6 record of depth 16 with data behind it failed
\* on its depth.
C13_Witness ==
    /\ Parsed("abr6") /\ HasDepth6 /\ Depth6 = 16
    /\ last.err = UnsupportedBitDepth(16)
    /\ dec.rdr + 5 <= Len(src)

\* C14: every call that meets no device or allocator error ends in None,
\* Some(Ok) or Some(Err), and a brush is returned only from bounds with
\* right >= left and bottom >= top.
C14_NoUnderflow ==
    (last.op = "next_brush" /\ last.env = "ok") =>
        /\ last.res \in {"None", "Ok", "Err"}
        /\ (kind = "abr12" /\ last.res = "Ok") => (Right12 >= Left12 /\ Bottom12 >= Top12)
        /\ (kind = "abr6" /\ last.res = "Ok") => (Right6 >= Left6 /\ Bottom6 >= Top6)

\* C15: after a generation-6 length read of L at record offset p the committed
\* offset is the smallest multiple of 4 that is >= p + 4 + L: a multiple of 4,
\* at least p + 4 + L and less than 4 above it, so equal to it when it is
\* aligned; it exceeds p by at least 4 and is what the decoder keeps.
C15_NextOffsetAligned ==
    (kind = "abr6" /\ last.op = "next_brush" /\ last.headOk) =>
        LET p == last.at
            L == BeU32(src, p)
            n == last.mid.next_brush_pos
        IN /\ n % 4 = 0
           /\ n >= p + 4 + L
           /\ n < p + 4 + L + 4
           /\ ((p + 4 + L) % 4 = 0) => n = p + 4 + L
           /\ n >= p + 4
           /\ dec.next_brush_pos = n

\* C15 witness: a length read whose record ends off a 4-byte boundary.
C15_Witness ==
    /\ kind = "abr6" /\ last.op = "next_brush" /\ last.headOk
    /\ (last.at + 4 + BeU32(src, last.at)) % 4 # 0
    /\ last.mid.next_brush_pos > last.at + 4 + BeU32(src, last.at)

\* C16, the call: a call that returns None leaves every decoder field and the
\* reader's position as they were.
C16_NoneChangesNothing ==
    (last.op = "next_brush" /\ last.res = "None") => dec = last.pre

\* C16, the calls after it: a call that follows a None returns None.
C16_NoneStays ==
    [][(last.op = "next_brush" /\ last.res = "None" /\ calls' = calls + 1)
       => last'.res = "None"]_vars

\* C16: exhaustion is absorbing, and an exhausted call touches nothing.
C16_ExhaustionAbsorbing == []C16_NoneChangesNothing /\ C16_NoneStays

\* C16 witness: the second None in a row, the reader standing away from the
\* next offset.
C16_Witness ==
    /\ last.op = "next_brush" /\ last.res = "None"
    /\ failedAt > 0 /\ calls = failedAt + 2
    /\ dec.rdr # dec.next_brush_pos

\* The call the decoder of this run would make from decoder value d.
next_brush(d, env) ==
    IF kind = "abr12" THEN next_brush12(d, src, build, env) ELSE next_brush6(d, src, build, env)

\* The fields of a decoder other than its reader.
Fields(d) == [f \in (DOMAIN d) \ {"rdr"} |-> d[f]]

\* Two calls with the same returned value and the same resulting fields.
SameOutcome(r1, r2) ==
    /\ r1.res = r2.res
    /\ r1.err = r2.err
    /\ r1.brush = r2.brush
    /\ Fields(r1.dec) = Fields(r2.dec)

\* Reader positions another decoder with the same fields may have been left at.
OtherPositions == {0, dec.rdr + 1, dec.next_brush_pos + 3, Len(src)}

\* C17: a decoder that agrees with this one on every field but stands at
\* another reader position gets the same returned value and the same
\* resulting fields from next_brush, under the same device behaviour.
C17_ReaderPositionIrrelevant ==
    (pc = "open") =>
        \A r \in OtherPositions : \A env \in Envs :
            SameOutcome(next_brush([dec EXCEPT !.rdr = r], env), next_brush(dec, env))

\* C17 witness: a body parse failed and left the reader away from the next
\* record, which the following call decodes.
C17_Witness ==
    /\ pc = "open" /\ last.op = "next_brush" /\ last.res = "Err" /\ last.headOk
    /\ dec.rdr # dec.next_brush_pos
    /\ next_brush(dec, "ok").res = "Ok"

\* (end - start) / 4 rounded up.
CeilDiv4(n) == (n + 3) \div 4

\* C18: a generation-6 call that does not return None is at most the
\* ((end - start) / 4 rounded up)-th call, so None comes one call later at the
\* latest; and it raises next_brush_pos by at least 4 or sets it to the
\* section end.
C18_IterationBounded ==
    (kind = "abr6" /\ last.op = "next_brush" /\ last.res # "None") =>
        /\ calls <= CeilDiv4(dec.sample_section_end - SampleStart)
        /\ \/ dec.next_brush_pos >= last.pre.next_brush_pos + 4
           \/ dec.next_brush_pos = dec.sample_section_end

\* C18 witness: the bound is met: in a section of 8 bytes the second call
\* still returns Some, each call having moved on by 4.
C18_Witness ==
    /\ kind = "abr6" /\ last.op = "next_brush" /\ last.res \in Some /\ last.headOk
    /\ calls = 2 /\ dec.sample_section_end - SampleStart = 8
    /\ dec.next_brush_pos = last.pre.next_brush_pos + 4

\* C19: the section-discovery loop of open begins at the reader's position;
\* an iteration that does not return is followed by one that begins 12 bytes
\* plus the block's length value further on, so at least 12 further and never
\* further back; the loop makes at most one iteration per 12 bytes of source
\* and one more, and open ends with a decoder, Found8bim or an I/O error, the
\* last when an iteration begins where no signature is left to read.
C19_OpenTerminates ==
    (kind = "abr6" /\ last.op = "open") =>
        LET v == last.visited IN
        /\ last.res \in {"Ok", "Found8bim", "IoError"}
        /\ Len(v) >= 1 /\ v[1] = args.rdr
        /\ \A i \in 1..(Len(v) - 1) :
              /\ v[i] + 12 <= Len(src)
              /\ v[i + 1] = v[i] + 12 + BeU32(src, v[i] + 8)
              /\ v[i + 1] >= v[i] + 12
        /\ Len(v) <= (Len(src) \div 12) + 1
        /\ (v[Len(v)] + 4 > Len(src)) => last.res = "IoError"

\* C19 witness: two blocks were skipped, the second one's data reaching past
\* the end of the source, and the third iteration failed on its read.
C19_Witness ==
    /\ kind = "abr6" /\ last.op = "open" /\ last.env = "ok"
    /\ Len(last.visited) = 3
    /\ last.visited[3] > Len(src)
    /\ last.res = "IoError"

\* The dimensions the 16-bit bounds of the last record describe, and whether
\* the source holds that many bytes of data behind the compression flag.
Width12 == Right12 - Left12
Height12 == Bottom12 - Top12
EnoughData12 ==
    Data12At + (IF Width12 > 0 /\ Height12 > 0 THEN Width12 * Height12 ELSE 0) <= Len(src)

\* C20: a legacy record of type 2, depth 8 and compression flag 0 with enough
\* bytes behind it gives a brush of width right - left and height bottom - top
\* of the 16-bit bounds, depth 8, whose data are the width * height bytes
\* right after the flag; the fields are found behind a name exactly in
\* version 2.
C20_LegacyDecode ==
    (/\ Parsed("abr12") /\ HasDepth12
     /\ BeU16(src, Body12At) = 2 /\ Depth12 = 8
     /\ Fixed12At + 28 <= Len(src) /\ src[Fixed12At + 28] = 0
     /\ EnoughData12) =>
        /\ last.res = "Ok"
        /\ last.brush.width = Width12
        /\ last.brush.height = Height12
        /\ last.brush.depth = 8
        /\ last.brush.data = Bytes(src, Data12At, Width12 * Height12)

====
